---- MODULE Spec2Model ----
(***************************************************************************)
(* Model of the question-answering application: the retrying API-call      *)
(* wrapper generate_content_with_retry and the HTTP handler generate_answer *)
(* of app.py, and the terminal program of LLM_QA_CLI.py.                    *)
(*                                                                         *)
(* Python strings are sequences of one-character strings, so that strip()  *)
(* and startswith() are computed character by character.  A Python value   *)
(* that may be None or a non-string is a tagged record (Str, None, PyInt). *)
(***************************************************************************)
EXTENDS Integers, Sequences, FiniteSets, TLC

(***************************************************************************)
(* String literals of the source.                                          *)
(***************************************************************************)

\* app.py line 38: "ERROR: AI service is not initialized."
MSG_NOT_INITIALIZED ==
  <<"E","R","R","O","R",":"," ","A","I"," ","s","e","r","v","i","c","e"," ",
    "i","s"," ","n","o","t"," ","i","n","i","t","i","a","l","i","z","e","d",
    ".">>

\* app.py line 64: "AI Service Unavailable: Could not connect to the Generative AI model."
MSG_UNAVAILABLE ==
  <<"A","I"," ","S","e","r","v","i","c","e"," ","U","n","a","v","a","i","l",
    "a","b","l","e",":"," ","C","o","u","l","d"," ","n","o","t"," ","c","o",
    "n","n","e","c","t"," ","t","o"," ","t","h","e"," ","G","e","n","e","r",
    "a","t","i","v","e"," ","A","I"," ","m","o","d","e","l",".">>

\* app.py line 67: "An internal server error occurred during processing."
MSG_INTERNAL ==
  <<"A","n"," ","i","n","t","e","r","n","a","l"," ","s","e","r","v","e","r",
    " ","e","r","r","o","r"," ","o","c","c","u","r","r","e","d"," ","d","u",
    "r","i","n","g"," ","p","r","o","c","e","s","s","i","n","g",".">>

\* app.py line 69: "Failed to get a response after multiple attempts."
MSG_FALLTHROUGH ==
  <<"F","a","i","l","e","d"," ","t","o"," ","g","e","t"," ","a"," ","r","e",
    "s","p","o","n","s","e"," ","a","f","t","e","r"," ","m","u","l","t","i",
    "p","l","e"," ","a","t","t","e","m","p","t","s",".">>

\* app.py line 87: "ERROR:"
PREFIX_ERROR ==
  <<"E","R","R","O","R",":">>

\* app.py line 87: "AI Service Unavailable:"
PREFIX_UNAVAILABLE ==
  <<"A","I"," ","S","e","r","v","i","c","e"," ","U","n","a","v","a","i","l",
    "a","b","l","e",":">>

\* app.py line 80: "Query cannot be empty."
MSG_EMPTY_QUERY ==
  <<"Q","u","e","r","y"," ","c","a","n","n","o","t"," ","b","e"," ","e","m",
    "p","t","y",".">>

\* app.py line 28: "gemini-2.5-flash"
MODEL_ID ==
  <<"g","e","m","i","n","i","-","2",".","5","-","f","l","a","s","h">>

\* LLM_QA_CLI.py line 55: "Please enter a question."
MSG_ENTER_QUESTION ==
  <<"P","l","e","a","s","e"," ","e","n","t","e","r"," ","a"," ","q","u","e",
    "s","t","i","o","n",".">>

\* LLM_QA_CLI.py line 42: "An LLM API Error occurred: "
PREFIX_API_ERROR ==
  <<"A","n"," ","L","L","M"," ","A","P","I"," ","E","r","r","o","r"," ","o",
    "c","c","u","r","r","e","d",":"," ">>

\* LLM_QA_CLI.py line 44: "An unexpected error occurred: "
PREFIX_UNEXPECTED ==
  <<"A","n"," ","u","n","e","x","p","e","c","t","e","d"," ","e","r","r","o",
    "r"," ","o","c","c","u","r","r","e","d",":"," ">>
(***************************************************************************)
(* Bounds of the model.                                                    *)
(***************************************************************************)
\* Largest max_retries a direct caller passes (0 and -1 are passed too).
MaxRetriesArg == 3

\* Number of calls of generate_content_with_retry running at the same time.
NumConcurrent == 2

\* Longest input line drawn from LineAlphabet.
MaxLineLen == 3

(***************************************************************************)
(* Python values.                                                          *)
(***************************************************************************)
Str(s) == [type |-> "str", val |-> s]
None == [type |-> "NoneType"]
PyInt(n) == [type |-> "int", val |-> n]
PyFloat(n) == [type |-> "float", val |-> n]
Dict(items) == [type |-> "dict", items |-> items]
List == [type |-> "list"]
Exc(e) == [type |-> "exception", name |-> e]
Unbound == [type |-> "unbound"]

\* dict.get(key, default) on a dict held as a set of <<key, value>> pairs.
DictGet(d, key, default) ==
  IF \E p \in d.items : p[1] = key
  THEN (CHOOSE p \in d.items : p[1] = key)[2]
  ELSE default

\* Characters str.strip() and the regex class \s take for whitespace.
Whitespace == {" ", "\t", "\n", "\r"}

IsSpace(c) == c \in Whitespace

RECURSIVE LStrip(_)
LStrip(s) ==
  IF s = <<>> \/ ~IsSpace(Head(s)) THEN s ELSE LStrip(Tail(s))

RECURSIVE RStrip(_)
RStrip(s) ==
  IF s = <<>> \/ ~IsSpace(s[Len(s)]) THEN s ELSE RStrip(SubSeq(s, 1, Len(s) - 1))

\* Variant of Strip: lstrip() in place of strip().
Strip_LeadingOnly(s) == LStrip(s)

\* str.strip(): leading and trailing whitespace removed.
Strip(s) == RStrip(LStrip(s))

\* s[:n]
Prefix(s, n) == SubSeq(s, 1, IF Len(s) < n THEN Len(s) ELSE n)

\* str.startswith(prefix)
StartsWith(s, prefix) ==
  /\ Len(s) >= Len(prefix)
  /\ SubSeq(s, 1, Len(prefix)) = prefix

(***************************************************************************)
(* The generative-text service as seen by one outbound call.               *)
(***************************************************************************)
\* Exceptions derived from requests.exceptions.RequestException.
RequestExceptions == {"ConnectionError", "Timeout"}

\* Other exceptions derived from Exception; AttributeError is what
\* None.strip() raises when the response carries no text.
OtherExceptions == {"APIError", "ValueError", "AttributeError"}

\* Texts of a successful response.
ServiceTexts ==
  { <<"4">>,
    <<" ", "4", "\n">>,
    <<"a", " ", "b">>,
    <<" ", "\t">>,
    PREFIX_ERROR \o <<" ", "x">>,
    <<" ">> \o PREFIX_UNAVAILABLE \o <<" ", "x">> }

\* What client.models.generate_content does: it returns a response whose
\* .text is a string or None, or it raises.
Outcomes ==
  {[kind |-> "returns", text |-> Str(t)] : t \in ServiceTexts}
    \cup {[kind |-> "returns", text |-> None]}
    \cup {[kind |-> "raises", exc |-> e] :
            e \in RequestExceptions \cup {"APIError", "ValueError"}}

(***************************************************************************)
(* generate_content_with_retry, app.py lines 35-69.                        *)
(***************************************************************************)
\* max_retries=5 in the signature.
DefaultMaxRetries == 5

\* retry_delay = 1
InitialDelay == 1

\* Variant of NextDelay: retry_delay += 1.
NextDelay_Linear(d) == d + 1

\* Variant of NextDelay: retry_delay *= 3.
NextDelay_Triple(d) == d * 3

\* retry_delay *= 2
NextDelay(d) == d * 2

\* Variant of ClientMissing: the check of line 37 left out.
ClientMissing_Never(c) == FALSE

\* if not client
ClientMissing(c) == c = None

\* Variant of LoopContinues: for attempt in range(max_retries + 1).
LoopContinues_Inclusive(a, m) == a <= m

\* for attempt in range(max_retries): the body runs for this attempt.
LoopContinues(a, m) == a < m

\* Variant of ShouldRetry: if attempt < max_retries.
ShouldRetry_OffByOne(a, m) == a < m

\* Variant of ShouldRetry: the last attempt is not told apart.
ShouldRetry_Always(a, m) == TRUE

\* if attempt < max_retries - 1
ShouldRetry(a, m) == a < m - 1

\* The try body: the outbound call and response.text.strip().
TryBody(o) ==
  IF o.kind = "raises" THEN [kind |-> "raises", exc |-> o.exc]
  ELSE IF o.text.type # "str" THEN [kind |-> "raises", exc |-> "AttributeError"]
  ELSE [kind |-> "returns", val |-> Str(Strip(o.text.val))]

\* Variant of ExceptClause: every exception handled as a RequestException.
ExceptClause_RetryAll(exc) == "RequestException"

\* Variant of ExceptClause: no except Exception clause.
ExceptClause_RequestOnly(exc) ==
  IF exc \in RequestExceptions THEN "RequestException" ELSE "uncaught"

\* The except clause that handles an exception raised in the try body.
ExceptClause(exc) ==
  IF exc \in RequestExceptions THEN "RequestException"
  ELSE IF exc \in OtherExceptions THEN "Exception"
  ELSE "uncaught"

\* print(...): one printed line, the format and its arguments.
Printed(fmt, args) == [fmt |-> fmt, args |-> args]

\* print(...) that raised exc instead of writing the line.
PrintFailed(fmt, args, exc) == [fmt |-> fmt, args |-> args, error |-> Exc(exc)]

VARIABLES
  client,        \* the process-wide service client, or None
  MODEL_NAME,    \* the process-wide model name, unbound if the client failed
  clock,         \* seconds slept so far in this request (the mocked clock)
  stdout,        \* lines printed in this request
  events,        \* outbound calls and sleeps of this request, in order
  pc,            \* state of the call of generate_content_with_retry
  prompt,        \* its argument prompt
  max_retries,   \* its argument max_retries
  attempt,       \* its loop variable
  retry_delay,   \* its local retry_delay, 0 before line 40
  ret,           \* the value it returned
  retSite,       \* the return statement it returned from
  hpc,           \* state of the HTTP handler generate_answer
  data,          \* its local data
  user_query,    \* its local user_query
  response,      \* the HTTP response
  cpc,           \* state of the terminal program main
  user_question,       \* its local user_question
  processed_question,  \* its local processed_question
  llm_invocations,     \* calls of get_llm_answer
  llm_answer,          \* its local llm_answer
  frames               \* the locals of each of the concurrent calls

genVars == <<pc, prompt, max_retries, attempt, retry_delay, ret, retSite>>
httpVars == <<hpc, data, user_query, response>>
cliVars == <<cpc, user_question, processed_question, llm_invocations, llm_answer>>
configVars == <<client, MODEL_NAME>>
vars == <<client, MODEL_NAME, clock, stdout, events, pc, prompt, max_retries,
          attempt, retry_delay, ret, retSite, hpc, data, user_query, response,
          cpc, user_question, processed_question, llm_invocations, llm_answer,
          frames>>

Terminal == {"Succeeded", "Failed"}

CallIds == 1..NumConcurrent

\* The locals of a call that has not started.
IdleFrame ==
  [pc |-> "Idle", prompt |-> None, max_retries |-> 0, attempt |-> 0,
   retry_delay |-> 0, ret |-> None, retSite |-> "none", events |-> <<>>,
   log |-> <<>>]

\* Module initialisation, app.py lines 17-31: genai.Client(...) succeeds and
\* MODEL_NAME is bound, or it raises and client is None.
Init ==
  /\ \/ client = Str(<<"c">>) /\ MODEL_NAME = Str(MODEL_ID)
     \/ client = None /\ MODEL_NAME = Unbound
  /\ clock = 0
  /\ stdout = <<>>
  /\ events = <<>>
  /\ pc = "Idle"
  /\ prompt = None
  /\ max_retries = 0
  /\ attempt = 0
  /\ retry_delay = 0
  /\ ret = None
  /\ retSite = "none"
  /\ hpc = "idle"
  /\ data = None
  /\ user_query = None
  /\ response = None
  /\ cpc = "idle"
  /\ user_question = None
  /\ processed_question = None
  /\ llm_invocations = 0
  /\ llm_answer = None
  /\ frames = [c \in CallIds |-> IdleFrame]

\* No request is being handled: a new one may start.
Quiescent ==
  /\ pc \in Terminal \cup {"Idle", "Raised"}
  /\ hpc \in {"idle", "done", "raised"}
  /\ cpc \in {"idle", "done"}

HttpIdle ==
  /\ hpc' = "idle"
  /\ data' = None
  /\ user_query' = None
  /\ response' = None

CliIdle ==
  /\ cpc' = "idle"
  /\ user_question' = None
  /\ processed_question' = None
  /\ llm_invocations' = 0
  /\ llm_answer' = None

GenIdle ==
  /\ pc' = "Idle"
  /\ prompt' = None
  /\ max_retries' = 0
  /\ attempt' = 0
  /\ retry_delay' = 0
  /\ ret' = None
  /\ retSite' = "none"

\* return <value> from generate_content_with_retry.
Return(state, value, site) ==
  /\ pc' = state
  /\ ret' = Str(value)
  /\ retSite' = site

\* Entry of generate_content_with_retry(p, m), lines 35-42.
Enter(p, m) ==
  /\ prompt' = p
  /\ max_retries' = m
  /\ attempt' = 0
  /\ IF ClientMissing(client)
     THEN /\ Return("Failed", MSG_NOT_INITIALIZED, "not_initialized")
          /\ retry_delay' = 0
     ELSE /\ retry_delay' = InitialDelay
          /\ IF LoopContinues(0, m)
             THEN pc' = "Attempting" /\ ret' = None /\ retSite' = "none"
             ELSE Return("Failed", MSG_FALLTHROUGH, "fallthrough")

\* A caller other than the HTTP handler calls
\* generate_content_with_retry(p, m).
Call(p, m) ==
  /\ Quiescent
  /\ HttpIdle
  /\ CliIdle
  /\ clock' = 0
  /\ stdout' = <<>>
  /\ events' = <<>>
  /\ Enter(Str(p), m)
  /\ UNCHANGED <<configVars, frames>>

\* One iteration of the loop up to the sleep, lines 43-59 and 62-67: the
\* outbound call has outcome o.
Attempt(o) ==
  /\ pc = "Attempting"
  /\ events' = Append(events, [ev |-> "call", outcome |-> o])
  /\ LET r == TryBody(o)
         clause == IF r.kind = "raises" THEN ExceptClause(r.exc) ELSE "none"
     IN  IF r.kind = "returns"
         THEN /\ Return("Succeeded", r.val.val, "answer")
              /\ UNCHANGED stdout
         ELSE IF clause = "RequestException"
         THEN IF ShouldRetry(attempt, max_retries)
              THEN /\ pc' = "Retrying"
                   /\ stdout' = Append(stdout,
                        Printed("API request failed (Attempt {}/{}). Retrying in {}s... Error: {}",
                              <<PyInt(attempt + 1), PyInt(max_retries), PyInt(retry_delay),
                                Exc(r.exc)>>))
                   /\ UNCHANGED <<ret, retSite>>
              ELSE /\ Return("Failed", MSG_UNAVAILABLE, "unavailable")
                   /\ stdout' = Append(stdout,
                        Printed("Final API request failed after {} attempts. Error: {}",
                              <<PyInt(max_retries), Exc(r.exc)>>))
         ELSE IF clause = "Exception"
         THEN /\ Return("Failed", MSG_INTERNAL, "internal")
              /\ stdout' = Append(stdout,
                   Printed("An unexpected error occurred during content generation: {}",
                         <<Exc(r.exc)>>))
         ELSE /\ pc' = "Raised"
              /\ UNCHANGED <<ret, retSite, stdout>>
  /\ UNCHANGED <<prompt, max_retries, attempt, retry_delay, clock>>
  /\ UNCHANGED <<configVars, httpVars, cliVars, frames>>

\* time.sleep(retry_delay), retry_delay *= 2 and the next round of the
\* loop, lines 60-61, 42 and 69.
Sleep ==
  /\ pc = "Retrying"
  /\ events' = Append(events, [ev |-> "sleep", secs |-> retry_delay])
  /\ clock' = clock + retry_delay
  /\ retry_delay' = NextDelay(retry_delay)
  /\ attempt' = attempt + 1
  /\ IF LoopContinues(attempt + 1, max_retries)
     THEN pc' = "Attempting" /\ UNCHANGED <<ret, retSite>>
     ELSE Return("Failed", MSG_FALLTHROUGH, "fallthrough")
  /\ UNCHANGED <<prompt, max_retries, stdout>>
  /\ UNCHANGED <<configVars, httpVars, cliVars, frames>>

\* One iteration of the loop in which the print of the handler that caught
\* the failure raises (lines 58-59, 63 or 66): the exception leaves the
\* except clause and the function, before any sleep or return.
AttemptLogFails(o) ==
  /\ pc = "Attempting"
  /\ LET r == TryBody(o)
     IN  /\ r.kind = "raises"
         /\ ExceptClause(r.exc) \in {"RequestException", "Exception"}
         /\ stdout' = Append(stdout,
              PrintFailed(
                IF ExceptClause(r.exc) = "Exception"
                THEN "An unexpected error occurred during content generation: {}"
                ELSE IF ShouldRetry(attempt, max_retries)
                THEN "API request failed (Attempt {}/{}). Retrying in {}s... Error: {}"
                ELSE "Final API request failed after {} attempts. Error: {}",
                <<Exc(r.exc)>>, "OSError"))
  /\ events' = Append(events, [ev |-> "call", outcome |-> o])
  /\ pc' = "Raised"
  /\ UNCHANGED <<ret, retSite, prompt, max_retries, attempt, retry_delay, clock>>
  /\ UNCHANGED <<configVars, httpVars, cliVars, frames>>

(***************************************************************************)
(* generate_answer, app.py lines 73-95.                                    *)
(***************************************************************************)
\* Values of the "query" key of a JSON object body.
QueryValues ==
  { Str(<<>>), Str(<<" ", "\t">>), Str(<<"h", "i">>), Str(<<" ", "h", "i", " ">>),
    PyInt(5), None }

\* What request.get_json() returns: None, a JSON array, or a JSON object
\* with or without the key "query".
Bodies ==
  {None, List, Dict({}), Dict({<<"q", Str(<<"h", "i">>)>>})}
    \cup {Dict({<<"query", v>>}) : v \in QueryValues}

\* Flask's answer to an exception the handler does not catch.
UnhandledResponse == [status |-> 500, body |-> [unhandled |-> TRUE]]

\* jsonify({"error": message}), status
ErrorResponse(status, message) ==
  [status |-> status, body |-> [error |-> Str(message)]]

\* ai_response.startswith("ERROR:") or
\* ai_response.startswith("AI Service Unavailable:")
IsErrorResponse(s) ==
  StartsWith(s, PREFIX_ERROR) \/ StartsWith(s, PREFIX_UNAVAILABLE)

\* Lines 76-85: the request body is read and checked, and the generator is
\* called for a non-empty query.
HttpReceive(b) ==
  /\ Quiescent
  /\ CliIdle
  /\ clock' = 0
  /\ events' = <<>>
  /\ data' = b
  /\ LET q == IF b.type = "dict" THEN DictGet(b, "query", Str(<<>>)) ELSE None
     IN  IF b.type # "dict" \/ q.type # "str"
         THEN \* AttributeError at line 77: no .get or no .strip
              /\ hpc' = "raised"
              /\ user_query' = None
              /\ response' = UnhandledResponse
              /\ stdout' = <<>>
              /\ GenIdle
         ELSE /\ user_query' = Str(Strip(q.val))
              /\ IF Strip(q.val) = <<>>
                 THEN /\ hpc' = "done"
                      /\ response' = ErrorResponse(400, MSG_EMPTY_QUERY)
                      /\ stdout' = <<>>
                      /\ GenIdle
                 ELSE /\ hpc' = "calling"
                      /\ response' = None
                      /\ stdout' = <<Printed("Received query: {}...",
                                           <<Str(Prefix(Strip(q.val), 50))>>)>>
                      /\ Enter(Str(Strip(q.val)), DefaultMaxRetries)
  /\ UNCHANGED <<configVars, frames>>

\* Lines 87-95: the generator has returned and the response is built.
HttpRespond ==
  /\ hpc = "calling"
  /\ pc \in Terminal \cup {"Raised"}
  /\ IF pc = "Raised"
     THEN hpc' = "raised" /\ response' = UnhandledResponse
     ELSE IF IsErrorResponse(ret.val)
     THEN hpc' = "done" /\ response' = ErrorResponse(503, ret.val)
     ELSE IF MODEL_NAME = Unbound
     THEN hpc' = "raised" /\ response' = UnhandledResponse
     ELSE /\ hpc' = "done"
          /\ response' = [status |-> 200,
                          body |-> [response |-> ret,
                                    model |-> MODEL_NAME,
                                    timestamp |-> PyFloat(clock)]]
  /\ UNCHANGED <<data, user_query, clock, stdout, events>>
  /\ UNCHANGED <<configVars, genVars, cliVars, frames>>

(***************************************************************************)
(* LLM_QA_CLI.py.                                                          *)
(***************************************************************************)
UpperCase ==
  <<"A","B","C","D","E","F","G","H","I","J","K","L","M","N","O","P","Q","R",
    "S","T","U","V","W","X","Y","Z">>

LowerCase ==
  <<"a","b","c","d","e","f","g","h","i","j","k","l","m","n","o","p","q","r",
    "s","t","u","v","w","x","y","z">>

Digits == {"0","1","2","3","4","5","6","7","8","9"}

Range(s) == {s[i] : i \in DOMAIN s}

\* Upper-case letters (category Lu) for which str.lower() has no lower-case
\* form, each written as one character by its code point: U+2102 is the
\* double-struck capital C.
UpperWithoutLower == {"U+2102"}

\* The regex class \w: letters of any script, digits and the underscore.
IsWord(c) ==
  c \in Range(UpperCase) \cup Range(LowerCase) \cup UpperWithoutLower
          \cup Digits \cup {"_"}

\* str.lower() on one character.
LowerChar(c) ==
  IF c \in Range(UpperCase)
  THEN LowerCase[CHOOSE i \in DOMAIN UpperCase : UpperCase[i] = c]
  ELSE c

\* question.lower()
Lower(s) == [i \in DOMAIN s |-> LowerChar(s[i])]

KeepWordOrSpace(c) == IsWord(c) \/ IsSpace(c)

\* re.sub(r'[^\w\s]', '', s)
RemovePunctuation(s) == SelectSeq(s, KeepWordOrSpace)

\* Variant of CollapseSpaces: runs of whitespace left as they are.
CollapseSpaces_Kept(s) == s

\* re.sub(r'\s+', ' ', s)
RECURSIVE CollapseSpaces(_)
CollapseSpaces(s) ==
  IF s = <<>> THEN <<>>
  ELSE IF IsSpace(Head(s))
  THEN <<" ">> \o CollapseSpaces(LStrip(s))
  ELSE <<Head(s)>> \o CollapseSpaces(Tail(s))

\* preprocess_question, lines 8-17.
preprocess_question(question) ==
  Strip(CollapseSpaces(RemovePunctuation(Lower(question))))

\* Lines read by input().
InputLines ==
  { <<>>, <<" ", " ">>, <<"H", "i", "?">>, <<" ", "a", " ", "\t", "B", "!", " ">> }

\* What get_llm_answer meets: genai.Client() raises, or the outbound call
\* returns a response or raises.
CliOutcomes ==
  {[kind |-> "no_client", exc |-> "ValueError"]}
    \cup {[kind |-> "returns", text |-> v] :
            v \in {Str(<<"4">>), Str(<<" ", "4", "\n">>), None}}
    \cup {[kind |-> "raises", exc |-> e] : e \in {"APIError", "ConnectionError"}}

\* str(e) of an exception, as the f-strings format it.
ExcText(e) == <<e>>

\* get_llm_answer, lines 20-44: the value it returns.
get_llm_answer(o) ==
  IF o.kind = "returns" THEN o.text
  ELSE IF o.exc = "APIError" /\ o.kind = "raises"
  THEN Str(PREFIX_API_ERROR \o ExcText(o.exc))
  ELSE Str(PREFIX_UNEXPECTED \o ExcText(o.exc))

\* main up to the call of get_llm_answer, lines 47-65.
CliMain(line) ==
  /\ Quiescent
  /\ HttpIdle
  /\ GenIdle
  /\ clock' = 0
  /\ events' = <<>>
  /\ user_question' = Str(line)
  /\ llm_invocations' = 0
  /\ llm_answer' = None
  /\ IF line = <<>>
     THEN /\ cpc' = "done"
          /\ processed_question' = None
          /\ stdout' = <<Printed("LLM Question-and-Answering CLI System", <<>>),
                         Printed("Please enter a question.", <<>>)>>
     ELSE /\ cpc' = "asking"
          /\ processed_question' = Str(preprocess_question(line))
          /\ stdout' = <<Printed("LLM Question-and-Answering CLI System", <<>>),
                         Printed("--- Processing ---", <<>>),
                         Printed("Original Question: {}", <<Str(line)>>),
                         Printed("Processed Query:   {}",
                               <<Str(preprocess_question(line))>>),
                         Printed("Asking the LLM... Please wait.", <<>>)>>
  /\ UNCHANGED <<configVars, frames>>

\* The call of get_llm_answer and the rest of main, lines 66-71.
CliAnswer(o) ==
  /\ cpc = "asking"
  /\ cpc' = "done"
  /\ llm_invocations' = llm_invocations + 1
  /\ events' = IF o.kind = "no_client" THEN events
               ELSE Append(events, [ev |-> "call", outcome |-> o])
  /\ llm_answer' = get_llm_answer(o)
  /\ stdout' = stdout \o <<Printed("--- Final Answer ---", <<>>),
                           Printed("{}", <<get_llm_answer(o)>>),
                           Printed("--------------------", <<>>)>>
  /\ UNCHANGED <<user_question, processed_question, clock>>
  /\ UNCHANGED <<configVars, genVars, httpVars, frames>>

Next ==
  \/ \E p \in {<<"h", "i">>}, m \in -1..MaxRetriesArg : Call(p, m)
  \/ \E o \in Outcomes : Attempt(o)
  \/ Sleep
  \/ \E b \in Bodies : HttpReceive(b)
  \/ HttpRespond
  \/ \E line \in InputLines : CliMain(line)
  \/ \E o \in CliOutcomes : CliAnswer(o)

Spec == Init /\ [][Next]_vars

TypeOK ==
  /\ pc \in {"Idle", "Attempting", "Retrying", "Succeeded", "Failed", "Raised"}
  /\ hpc \in {"idle", "calling", "done", "raised"}
  /\ cpc \in {"idle", "asking", "done"}
  /\ attempt \in 0..DefaultMaxRetries
  /\ max_retries \in -1..DefaultMaxRetries

(***************************************************************************)
(* Concurrent calls of generate_content_with_retry: each call has its own  *)
(* locals (prompt, max_retries, attempt, retry_delay) and reads the        *)
(* globals client and MODEL_NAME.                                          *)
(***************************************************************************)
\* Outcomes of the outbound calls of concurrent calls.
ConcOutcomes ==
  { [kind |-> "raises", exc |-> "ConnectionError"],
    [kind |-> "raises", exc |-> "APIError"],
    [kind |-> "returns", text |-> Str(<<" ", "4", "\n">>)],
    [kind |-> "returns", text |-> None] }

\* Variant of WriteFrame: retry_delay kept in one place for all calls.
WriteFrame_SharedDelay(fs, c, f) ==
  [d \in DOMAIN fs |->
     IF d = c THEN f
     ELSE IF fs[d].pc \in {"Attempting", "Retrying"}
     THEN [fs[d] EXCEPT !.retry_delay = f.retry_delay]
     ELSE fs[d]]

\* Assignments to the locals of call c: they are in c's own frame.
WriteFrame(fs, c, f) == [fs EXCEPT ![c] = f]

\* Lines 35-42 on the locals of one call.
FrameEnter(p, m) ==
  IF ClientMissing(client)
  THEN [IdleFrame EXCEPT !.prompt = p, !.max_retries = m, !.pc = "Failed",
          !.ret = Str(MSG_NOT_INITIALIZED), !.retSite = "not_initialized"]
  ELSE IF LoopContinues(0, m)
  THEN [IdleFrame EXCEPT !.prompt = p, !.max_retries = m, !.pc = "Attempting",
          !.retry_delay = InitialDelay]
  ELSE [IdleFrame EXCEPT !.prompt = p, !.max_retries = m, !.pc = "Failed",
          !.retry_delay = InitialDelay,
          !.ret = Str(MSG_FALLTHROUGH), !.retSite = "fallthrough"]

\* Lines 43-59 and 62-67 on the locals of one call.
FrameAttempt(f, o) ==
  LET r == TryBody(o)
      clause == IF r.kind = "raises" THEN ExceptClause(r.exc) ELSE "none"
      g == [f EXCEPT !.events = Append(f.events, [ev |-> "call", outcome |-> o])]
  IN  IF r.kind = "returns"
      THEN [g EXCEPT !.pc = "Succeeded", !.ret = r.val, !.retSite = "answer"]
      ELSE IF clause = "RequestException"
      THEN IF ShouldRetry(f.attempt, f.max_retries)
           THEN [g EXCEPT !.pc = "Retrying",
                   !.log = Append(f.log,
                     Printed("API request failed (Attempt {}/{}). Retrying in {}s... Error: {}",
                             <<PyInt(f.attempt + 1), PyInt(f.max_retries),
                               PyInt(f.retry_delay), Exc(r.exc)>>))]
           ELSE [g EXCEPT !.pc = "Failed", !.ret = Str(MSG_UNAVAILABLE),
                   !.retSite = "unavailable",
                   !.log = Append(f.log,
                     Printed("Final API request failed after {} attempts. Error: {}",
                             <<PyInt(f.max_retries), Exc(r.exc)>>))]
      ELSE IF clause = "Exception"
      THEN [g EXCEPT !.pc = "Failed", !.ret = Str(MSG_INTERNAL),
              !.retSite = "internal",
              !.log = Append(f.log,
                Printed("An unexpected error occurred during content generation: {}",
                        <<Exc(r.exc)>>))]
      ELSE [g EXCEPT !.pc = "Raised"]

\* Lines 60-61, 42 and 69 on the locals of one call.
FrameSleep(f) ==
  LET g == [f EXCEPT !.events = Append(f.events, [ev |-> "sleep", secs |-> f.retry_delay]),
                     !.retry_delay = NextDelay(f.retry_delay),
                     !.attempt = f.attempt + 1]
  IN  IF LoopContinues(f.attempt + 1, f.max_retries)
      THEN [g EXCEPT !.pc = "Attempting"]
      ELSE [g EXCEPT !.pc = "Failed", !.ret = Str(MSG_FALLTHROUGH),
              !.retSite = "fallthrough"]

\* Everything but the frames and the configuration.
requestVars == <<clock, stdout, events, genVars, httpVars, cliVars>>

\* Call c is started with max_retries m.
ConcEnter(c, m) ==
  /\ frames[c].pc \in Terminal \cup {"Idle"}
  /\ frames' = WriteFrame(frames, c, FrameEnter(Str(<<"h", "i">>), m))
  /\ UNCHANGED <<configVars, requestVars>>

\* Call c makes its outbound call, with outcome o.
ConcAttempt(c, o) ==
  /\ frames[c].pc = "Attempting"
  /\ frames' = WriteFrame(frames, c, FrameAttempt(frames[c], o))
  /\ UNCHANGED <<configVars, requestVars>>

\* Call c sleeps and goes to its next round.
ConcSleep(c) ==
  /\ frames[c].pc = "Retrying"
  /\ frames' = WriteFrame(frames, c, FrameSleep(frames[c]))
  /\ UNCHANGED <<configVars, requestVars>>

ConcNext ==
  \/ \E c \in CallIds, m \in 1..MaxRetriesArg : ConcEnter(c, m)
  \/ \E c \in CallIds, o \in ConcOutcomes : ConcAttempt(c, o)
  \/ \E c \in CallIds : ConcSleep(c)

\* Calls running at the same time, their steps interleaved in any order.
ConcSpec == Init /\ [][ConcNext]_vars

(***************************************************************************)
(* preprocess_question on its own, applied to every short string.          *)
(***************************************************************************)
\* Characters of the questions: a lower-case and an upper-case letter, a
\* punctuation mark, two whitespace characters and an upper-case letter
\* without lower-case form.
LineAlphabet == {"a", "B", "?", " ", "\t", "U+2102"}

\* The questions preprocess_question is applied to.
Questions ==
  InputLines \cup UNION {[1..n -> LineAlphabet] : n \in 0..MaxLineLen}

\* A question has been drawn and nothing has run yet.
PreInit ==
  /\ client = Str(<<"c">>) /\ MODEL_NAME = Str(MODEL_ID)
  /\ clock = 0
  /\ stdout = <<>>
  /\ events = <<>>
  /\ pc = "Idle"
  /\ prompt = None
  /\ max_retries = 0
  /\ attempt = 0
  /\ retry_delay = 0
  /\ ret = None
  /\ retSite = "none"
  /\ hpc = "idle"
  /\ data = None
  /\ user_query = None
  /\ response = None
  /\ cpc = "idle"
  /\ user_question \in {Str(q) : q \in Questions}
  /\ processed_question = None
  /\ llm_invocations = 0
  /\ llm_answer = None
  /\ frames = [c \in CallIds |-> IdleFrame]

\* processed_question = preprocess_question(user_question), line 60.
Preprocess ==
  /\ processed_question = None
  /\ processed_question' = Str(preprocess_question(user_question.val))
  /\ UNCHANGED <<configVars, clock, stdout, events, genVars, httpVars, frames>>
  /\ UNCHANGED <<cpc, user_question, llm_invocations, llm_answer>>

PreNext == Preprocess

PreSpec == PreInit /\ [][PreNext]_vars


LogNext ==
  \/ Next
  \/ \E o \in Outcomes : AttemptLogFails(o)

LogSpec == Init /\ [][LogNext]_vars

\* The steps of a call of generate_content_with_retry need no outside
\* event: the outbound call returns or raises, and a sleep ends.
FairSpec ==
  Spec /\ WF_vars(\E o \in Outcomes : Attempt(o)) /\ WF_vars(Sleep)

(***************************************************************************)
(* Observations on a request, used by the properties below.                *)
(***************************************************************************)
IsCall(e) == e.ev = "call"

IsSleep(e) == e.ev = "sleep"

\* The outcomes of the outbound calls made so far, in order.
CallOutcomes ==
  LET calls == SelectSeq(events, IsCall)
  IN  [i \in DOMAIN calls |-> calls[i].outcome]

NumCalls == Len(CallOutcomes)

NumSleeps == Len(SelectSeq(events, IsSleep))

Transient(o) == o.kind = "raises" /\ o.exc \in RequestExceptions

NonTransient(o) == o.kind = "raises" /\ o.exc \notin RequestExceptions

ReturnsText(o) == o.kind = "returns" /\ o.text.type = "str"

ReturnsNoText(o) == o.kind = "returns" /\ o.text.type # "str"

\* A call of generate_content_with_retry has been made in this request.
GeneratorCalled == pc # "Idle"

RECURSIVE Pow2(_)
Pow2(n) == IF n = 0 THEN 1 ELSE 2 * Pow2(n - 1)

\* r is t without its leading and trailing whitespace, stated without
\* reference to Strip.
IsTrimOf(r, t) ==
  /\ r = <<>> \/ (~IsSpace(r[1]) /\ ~IsSpace(r[Len(r)]))
  /\ \E i \in 0..Len(t) :
       /\ i + Len(r) <= Len(t)
       /\ \A j \in 1..Len(t) :
            IF j > i /\ j <= i + Len(r) THEN t[j] = r[j - i] ELSE IsSpace(t[j])

(***************************************************************************)
(* Properties.                                                             *)
(***************************************************************************)

\* C1: with an initialized client and max_retries >= 1, a call whose
\* outbound calls all failed with a transient error has, once it returned,
\* made exactly max_retries outbound calls and returned the
\* "AI Service Unavailable: ..." failure.
C1_ExhaustionIsServiceUnavailable ==
  (/\ pc \in Terminal
   /\ client # None
   /\ max_retries >= 1
   /\ \A i \in DOMAIN CallOutcomes : Transient(CallOutcomes[i]))
  => /\ NumCalls = max_retries
     /\ pc = "Failed"
     /\ retSite = "unavailable"
     /\ ret = Str(MSG_UNAVAILABLE)

C1_Witness ==
  /\ pc = "Failed"
  /\ max_retries = MaxRetriesArg
  /\ NumCalls = MaxRetriesArg
  /\ \A i \in DOMAIN CallOutcomes : Transient(CallOutcomes[i])
  /\ ret = Str(MSG_UNAVAILABLE)

\* C2: in a call of generate_content_with_retry outbound calls and sleeps
\* alternate, starting with an outbound call; the sleep after the k-th
\* outbound call follows a transient failure with k < max_retries and
\* lasts 2^(k-1) seconds; a call that returned ended with an outbound call,
\* not with a sleep.
C2_BackoffDelays ==
  GeneratorCalled =>
    /\ \A i \in DOMAIN events :
         IF i % 2 = 1
         THEN IsCall(events[i])
         ELSE /\ IsSleep(events[i])
              /\ events[i].secs = Pow2((i \div 2) - 1)
              /\ Transient(events[i - 1].outcome)
              /\ i \div 2 < max_retries
    /\ pc \in Terminal /\ events # <<>> => IsCall(events[Len(events)])
    /\ pc = "Attempting" => Len(events) % 2 = 0
    /\ pc = "Retrying" => Len(events) % 2 = 1
    /\ clock = Pow2(NumSleeps) - 1

C2_Witness ==
  /\ GeneratorCalled
  /\ pc \in Terminal
  /\ NumSleeps >= 3
  /\ events[2].secs = 1
  /\ events[4].secs = 2
  /\ events[6].secs = 4

\* C3: an outbound attempt that fails with an exception outside the
\* transient class is the last thing the call does: no outbound call and
\* no sleep follows it, and the call has returned the internal-error
\* failure; when it is the first attempt, it is the only one.
C3_NonTransientNotRetried ==
  GeneratorCalled =>
    \A i \in DOMAIN events :
      (IsCall(events[i]) /\ NonTransient(events[i].outcome))
      => /\ i = Len(events)
         /\ pc = "Failed"
         /\ retSite = "internal"
         /\ ret = Str(MSG_INTERNAL)
         /\ NumCalls = (i + 1) \div 2

C3_Witness ==
  /\ GeneratorCalled
  /\ Len(events) = 3
  /\ NonTransient(events[3].outcome)
  /\ pc = "Failed"
  /\ NumCalls = 2

\* C4: when the first k-1 outbound calls failed transiently and the k-th
\* returned the text t (1 <= k <= max_retries), the call has returned t
\* without its leading and trailing whitespace and has made exactly k
\* outbound calls.
C4_SuccessReturnsTrimmedText ==
  GeneratorCalled =>
    \A k \in DOMAIN CallOutcomes :
      (/\ \A i \in 1..(k - 1) : Transient(CallOutcomes[i])
       /\ ReturnsText(CallOutcomes[k]))
      => /\ k <= max_retries
         /\ NumCalls = k
         /\ pc = "Succeeded"
         /\ retSite = "answer"
         /\ ret.type = "str"
         /\ IsTrimOf(ret.val, CallOutcomes[k].text.val)

C4_Witness ==
  /\ pc = "Succeeded"
  /\ NumCalls = 3
  /\ ReturnsText(CallOutcomes[3])
  /\ ret.val # CallOutcomes[3].text.val
  /\ ret.val # <<>>

\* The transitions of one call: Attempting is left for Succeeded, Retrying
\* or Failed, Retrying is left for Attempting only, and a call with an
\* initialized client and max_retries >= 1 starts in Attempting.
C5_Step ==
  /\ pc = "Attempting" => pc' \in {"Attempting", "Succeeded", "Retrying", "Failed"}
  /\ pc = "Retrying" => pc' \in {"Retrying", "Attempting"}
  /\ (pc \in Terminal \cup {"Idle"} /\ pc' # pc /\ client # None /\ max_retries' >= 1)
     => pc' \in {"Idle", "Attempting"}

\* The number of times the call has entered Attempting.
TimesAttempting == NumCalls + (IF pc = "Attempting" THEN 1 ELSE 0)

\* C5: a call follows Idle -> Attempting -> {Succeeded | Retrying ->
\* Attempting | Failed}; with max_retries >= 1 it enters Attempting at most
\* max_retries times; and a call that is attempting or retrying eventually
\* reaches Succeeded or Failed.
C5_StateMachineTerminates ==
  /\ [][C5_Step]_vars
  /\ [](GeneratorCalled /\ max_retries >= 1 => TimesAttempting <= max_retries)
  /\ (pc \in {"Attempting", "Retrying"} ~> pc \in Terminal)

C5_Witness ==
  /\ pc = "Attempting"
  /\ max_retries = MaxRetriesArg
  /\ TimesAttempting = MaxRetriesArg
  /\ NumSleeps = MaxRetriesArg - 1

\* C6: a call with a non-empty prompt and max_retries >= 1 never ends in
\* an exception; what it returns is a string, returned as the answer, as
\* the service-unavailable failure or as an internal-error failure,
\* whatever the outbound calls did.
C6_AnswerOrFailure ==
  (GeneratorCalled /\ max_retries >= 1 /\ prompt.val # <<>>) =>
    /\ pc # "Raised"
    /\ pc \in Terminal =>
         /\ ret.type = "str"
         /\ \/ pc = "Succeeded" /\ retSite = "answer"
            \/ pc = "Failed" /\ retSite = "unavailable" /\ ret = Str(MSG_UNAVAILABLE)
            \/ pc = "Failed" /\ retSite = "internal" /\ ret = Str(MSG_INTERNAL)
            \/ pc = "Failed" /\ retSite = "not_initialized"
                 /\ ret = Str(MSG_NOT_INITIALIZED)

C6_Witness ==
  /\ pc = "Failed"
  /\ retSite = "internal"
  /\ NumCalls = 2
  /\ ReturnsNoText(CallOutcomes[2])

\* The "query" of the request body as line 77 reads it, when the body is a
\* JSON object.
QueryOf(b) == DictGet(b, "query", Str(<<>>))

\* C7: input that is empty or only whitespace is rejected before any
\* outbound call, in both front-ends: POST /generate_answer with a query
\* that is empty, missing or only whitespace answers 400 "Query cannot be
\* empty." and neither calls the generator nor the service; the terminal
\* program given an empty or whitespace-only line prints "Please enter a
\* question." and ends without calling get_llm_answer.
C7_EmptyInputRejected ==
  /\ (/\ hpc # "idle"
      /\ data.type = "dict"
      /\ QueryOf(data).type = "str"
      /\ \A i \in DOMAIN QueryOf(data).val : IsSpace(QueryOf(data).val[i]))
     => /\ hpc = "done"
        /\ response = ErrorResponse(400, MSG_EMPTY_QUERY)
        /\ pc = "Idle"
        /\ events = <<>>
  /\ (/\ cpc # "idle"
      /\ \A i \in DOMAIN user_question.val : IsSpace(user_question.val[i]))
     => /\ cpc = "done"
        /\ stdout[Len(stdout)] = Printed("Please enter a question.", <<>>)
        /\ llm_invocations = 0
        /\ events = <<>>

\* C8: when the generator returned a failure to the HTTP handler, the
\* response is 503 with the body {"error": <the failure's message>}.
C8_FailureIs503 ==
  (hpc = "done" /\ pc = "Failed")
  => /\ response.status = 503
     /\ response.body = [error |-> ret]

\* C9: when the outbound call returned a text and the generator returned
\* it as the answer, the response is 200 with "response" the trimmed text,
\* "model" the fixed model name and a numeric "timestamp".
C9_SuccessIs200 ==
  (hpc = "done" /\ pc = "Succeeded")
  => /\ response.status = 200
     /\ response.body.response.type = "str"
     /\ IsTrimOf(response.body.response.val, CallOutcomes[NumCalls].text.val)
     /\ response.body.model = Str(MODEL_ID)
     /\ response.body.timestamp.type = "float"

\* C10: with client None a call of generate_content_with_retry has
\* returned "ERROR: AI service is not initialized." at once, for every
\* prompt and max_retries, without an outbound call or a sleep, and the
\* HTTP handler answers 503 with that message.
C10_UninitializedClient ==
  (client = None /\ GeneratorCalled)
  => /\ pc = "Failed"
     /\ retSite = "not_initialized"
     /\ ret = Str(MSG_NOT_INITIALIZED)
     /\ events = <<>>
     /\ clock = 0
     /\ hpc \in {"idle", "calling", "done"}
     /\ hpc = "done" => response = ErrorResponse(503, MSG_NOT_INITIALIZED)

C10_Witness ==
  /\ client = None
  /\ hpc = "done"
  /\ pc = "Failed"
  /\ response.status = 503
  /\ events = <<>>

\* A print of this request raised.
LogFailed == \E i \in DOMAIN stdout : "error" \in DOMAIN stdout[i]

\* C11: a print that fails inside a failure handler of
\* generate_content_with_retry does not end the call with an exception:
\* the call goes on to its sleep and next attempt, or has returned a
\* failure string.
C11_LoggingFailureDoesNotAbort ==
  (GeneratorCalled /\ LogFailed)
  => /\ pc \in {"Retrying", "Attempting", "Failed"}
     /\ pc = "Failed" => ret.type = "str"

\* The outcomes of the outbound calls of one call, in order.
FrameOutcomes(f) ==
  LET calls == SelectSeq(f.events, IsCall)
  IN  [i \in DOMAIN calls |-> calls[i].outcome]

\* What one call has done follows from its own arguments and the outcomes
\* of its own outbound calls.
FrameOwnHistory(f) ==
  LET outs == FrameOutcomes(f)
      n == Len(outs)
      sleeps == Len(SelectSeq(f.events, IsSleep))
  IN  /\ \A i \in DOMAIN f.events :
           IF i % 2 = 1 THEN IsCall(f.events[i])
           ELSE /\ IsSleep(f.events[i])
                /\ f.events[i].secs = Pow2((i \div 2) - 1)
                /\ Transient(f.events[i - 1].outcome)
      /\ f.attempt = sleeps
      /\ f.pc \in {"Attempting", "Retrying"} => f.retry_delay = Pow2(sleeps)
      /\ f.pc = "Attempting" => n = sleeps /\ n < f.max_retries
      /\ f.pc = "Retrying" => n = sleeps + 1 /\ Transient(outs[n]) /\ n < f.max_retries
      /\ f.pc \in Terminal /\ client # None =>
           /\ n = sleeps + 1
           /\ IF ReturnsText(outs[n])
              THEN f.pc = "Succeeded" /\ IsTrimOf(f.ret.val, outs[n].text.val)
              ELSE IF Transient(outs[n])
              THEN f.ret = Str(MSG_UNAVAILABLE) /\ n = f.max_retries
              ELSE f.ret = Str(MSG_INTERNAL)
      /\ f.pc \in Terminal /\ client = None =>
           f.events = <<>> /\ f.ret = Str(MSG_NOT_INITIALIZED)
      /\ f.pc # "Raised"

\* A step is taken by one call: it changes the locals of no other call and
\* leaves client and MODEL_NAME as they are.
C12_Step ==
  /\ Cardinality({c \in CallIds : frames'[c] # frames[c]}) <= 1
  /\ client' = client
  /\ MODEL_NAME' = MODEL_NAME

\* C12: under every interleaving of concurrent calls, each call's attempts,
\* backoff delays and result follow from the outcomes of its own outbound
\* calls alone, and no step of a call changes another call's locals or the
\* configuration client, MODEL_NAME.
C12_CallsIndependent ==
  /\ [][C12_Step]_vars
  /\ [](\A c \in CallIds : FrameOwnHistory(frames[c]))

C12_Witness ==
  /\ frames[1].pc = "Retrying"
  /\ frames[1].retry_delay = 1
  /\ frames[2].pc = "Attempting"
  /\ frames[2].retry_delay = 4
  /\ frames[2].max_retries > frames[1].max_retries

\* Seconds spent in the sleeps of a sequence of events.
RECURSIVE SecondsSlept(_)
SecondsSlept(es) ==
  IF es = <<>> THEN 0
  ELSE (IF IsSleep(Head(es)) THEN Head(es).secs ELSE 0) + SecondsSlept(Tail(es))

\* C13: a call with max_retries >= 1 sleeps at most 2^max_retries - 1
\* seconds in total, whatever the outbound calls do.
C13_TotalSleepBounded ==
  (GeneratorCalled /\ max_retries >= 1)
  => /\ SecondsSlept(events) <= Pow2(max_retries) - 1
     /\ clock = SecondsSlept(events)

C13_Witness ==
  /\ pc = "Failed"
  /\ retSite = "unavailable"
  /\ max_retries = DefaultMaxRetries
  /\ NumSleeps = DefaultMaxRetries - 1
  /\ SecondsSlept(events) = Pow2(DefaultMaxRetries - 1) - 1

\* C14: in the terminal program too a transient failure of the outbound
\* call is retried after a backoff sleep, not surfaced after one attempt.
C14_CliRetriesTransient ==
  (/\ cpc = "done"
   /\ llm_invocations = 1
   /\ NumCalls >= 1
   /\ Transient(CallOutcomes[1]))
  => /\ NumCalls >= 2
     /\ NumSleeps >= 1

\* C15: every POST /generate_answer ends in a 200, 400 or 503 response
\* with a JSON body, whatever the request body and the generator's result;
\* the handler never ends in an exception it does not handle.
C15_HandlerAlwaysResponds ==
  /\ hpc # "raised"
  /\ hpc = "done" =>
       \/ response.status = 200 /\ DOMAIN response.body = {"response", "model", "timestamp"}
       \/ response.status \in {400, 503} /\ DOMAIN response.body = {"error"}

\* C17: in the terminal program get_llm_answer makes at most one outbound
\* call and returns a string; for a non-empty line main calls it exactly
\* once, after printing the original and the normalized question and
\* before printing the answer.
C17_CliOneCallReturnsString ==
  /\ (cpc = "asking") =>
       /\ llm_invocations = 0
       /\ events = <<>>
       /\ \E i \in DOMAIN stdout : stdout[i].fmt = "Original Question: {}"
       /\ \E i \in DOMAIN stdout : stdout[i].fmt = "Processed Query:   {}"
       /\ \A i \in DOMAIN stdout : stdout[i].fmt # "--- Final Answer ---"
  /\ (cpc = "done" /\ user_question.val # <<>>) =>
       /\ llm_invocations = 1
       /\ NumCalls <= 1
       /\ llm_answer.type = "str"
       /\ stdout[Len(stdout) - 1] = Printed("{}", <<llm_answer>>)

\* str.isupper() on one character.
IsUpper(c) == c \in Range(UpperCase) \cup UpperWithoutLower

\* What the normal form requires besides the case of letters: only word
\* characters and single spaces, no whitespace at either end, no two
\* whitespace characters in a row, and preprocess_question leaves it as
\* it is.
NormalFormRest(r) ==
  /\ \A i \in DOMAIN r : IsWord(r[i]) \/ r[i] = " "
  /\ r = <<>> \/ (~IsSpace(r[1]) /\ ~IsSpace(r[Len(r)]))
  /\ \A i \in 1..(Len(r) - 1) : ~(IsSpace(r[i]) /\ IsSpace(r[i + 1]))
  /\ preprocess_question(r) = r

\* preprocess_question has been applied to the input line.
Preprocessed == processed_question.type = "str"

\* C16 as stated: the result of preprocess_question contains no upper-case
\* letter, only word characters and single spaces, no whitespace at either
\* end and no run of whitespace, and preprocess_question is idempotent.
C16_NormalFormNoUpperCase ==
  Preprocessed =>
    /\ \A i \in DOMAIN processed_question.val : ~IsUpper(processed_question.val[i])
    /\ NormalFormRest(processed_question.val)

\* C16: the result of preprocess_question contains no letter that
\* str.lower() changes, only word characters and single spaces, no
\* whitespace at either end and no run of whitespace, and
\* preprocess_question is idempotent.
C16_NormalFormIdempotent ==
  Preprocessed =>
    /\ \A i \in DOMAIN processed_question.val :
         LowerChar(processed_question.val[i]) = processed_question.val[i]
    /\ \A i \in DOMAIN processed_question.val :
         processed_question.val[i] \notin Range(UpperCase)
    /\ NormalFormRest(processed_question.val)

C16_Witness ==
  /\ Preprocessed
  /\ user_question.val = <<" ", "a", " ", "\t", "B", "!", " ">>
  /\ processed_question.val = <<"a", " ", "b">>

\* C18: a call with max_retries >= 1 never returns from the statement
\* after the loop; that return is taken exactly by the calls with an
\* initialized client and max_retries <= 0, which make no outbound call,
\* and the string it returns has neither prefix by which generate_answer
\* tells a failure, so that it counts as an answer (200).
C18_FallThroughOnlyWithoutRetries ==
  GeneratorCalled =>
    /\ max_retries >= 1 => retSite # "fallthrough"
    /\ (pc \in Terminal /\ max_retries >= 1) =>
         retSite \in {"answer", "unavailable", "internal", "not_initialized"}
    /\ retSite = "fallthrough" <=> (max_retries <= 0 /\ client # None)
    /\ retSite = "fallthrough" =>
         /\ pc = "Failed"
         /\ events = <<>>
         /\ ret = Str(MSG_FALLTHROUGH)
         /\ ~IsErrorResponse(ret.val)

C18_Witness ==
  /\ retSite = "fallthrough"
  /\ max_retries = -1
  /\ events = <<>>
  /\ ret = Str(MSG_FALLTHROUGH)

====
